---- MODULE Spec2Model ----
(***************************************************************************)
(* Room lifecycle and broadcast coordination of lrc_chat (src/server.mjs). *)
(*                                                                         *)
(* Every socket handler is an async function that suspends at each         *)
(* `await client.query(...)`.  All handlers share ONE pg Client (line 12), *)
(* and a pg Client runs its queries one at a time in the order they were   *)
(* issued.  `queue` is that query queue: an entry is a suspended handler   *)
(* and the query it is waiting on.  One step of the model takes the head   *)
(* query, runs it against the store, and runs the handler's continuation   *)
(* up to its next `await` (or its end).                                    *)
(***************************************************************************)
EXTENDS Integers, Sequences, FiniteSets, TLC

\* ------------------------------------------------------------------ bounds
NumConns == 2      \* connected sockets
MaxEvents == 4     \* inbound socket events over a run
MaxFail == 1       \* store calls that fail for an outside reason (connection loss)

Conns == 1..NumConns
RoomNames == {"a", "a-chat"}     \* names a client may send
GameNames == {"a"}               \* names sent with createGameRoom
Types == {"chat", "game"}

VARIABLES
    rooms,      \* table rooms: sequence of rows [name, type]
    messages,   \* table messages: sequence of rows [room_name, message, sender, type, created_at]
    clock,      \* the store's clock, the source of created_at
    sockets,    \* per connection: "connected" or "closed"
    members,    \* socket.io adapter: the rooms each socket id has joined
    queue,      \* the pg Client's query queue: <<[id, pc]>>, id a handler, pc its pending query
    reqs,       \* one frame per inbound event, in arrival order: the handler's arguments and locals
    delivered,  \* every event a client has received
    nFail       \* outside store failures so far

vars == <<rooms, messages, clock, sockets, members, queue, reqs, delivered, nFail>>

\* ------------------------------------------------------------- the store
\* SELECT * FROM rooms WHERE name = $1
SelectRoom(rs, name) == SelectSeq(rs, LAMBDA row : row.name = name)

\* SELECT * FROM rooms WHERE name = $1 AND type = $2
SelectRoomOfType(rs, name, type) ==
    SelectSeq(rs, LAMBDA row : row.name = name /\ row.type = type)

\* rooms.name is the table's PRIMARY KEY: an INSERT of a present name is rejected
PrimaryKeyViolation(rs, name) == Len(SelectRoom(rs, name)) > 0

\* INSERT INTO rooms (name, type) VALUES ($1, $2)
InsertRoom(rs, name, type) == Append(rs, [name |-> name, type |-> type])

\* messages.room_name is a FOREIGN KEY to rooms.name: a message row of an absent
\* room is rejected, and so is the DELETE of a room that message rows still name
ForeignKeyViolation(rs, ms, name, deleting) ==
    IF deleting THEN \E i \in 1..Len(ms) : ms[i].room_name = name
    ELSE Len(SelectRoom(rs, name)) = 0

\* created_at is assigned by the store and grows from one insert to the next
Timestamp(now) == now + 1

\* INSERT INTO messages (room_name, message, sender, type) VALUES ($1, $2, $3, $4)
InsertMessage(ms, room, message, sender, type, now) ==
    Append(ms, [room_name |-> room, message |-> message, sender |-> sender,
                type |-> type, created_at |-> now])

\* DELETE FROM messages WHERE room_name = $1
DeleteMessages(ms, room) == SelectSeq(ms, LAMBDA m : m.room_name # room)

\* DELETE FROM rooms WHERE name = $1
DeleteRoomBroken(rs, name) == rs
DeleteRoom(rs, name) == SelectSeq(rs, LAMBDA row : row.name # name)

\* ORDER BY created_at ASC (insertion sort, stable)
RECURSIVE InsertSorted(_, _)
InsertSorted(sorted, m) ==
    IF sorted = <<>> THEN <<m>>
    ELSE IF Head(sorted).created_at <= m.created_at
         THEN <<Head(sorted)>> \o InsertSorted(Tail(sorted), m)
         ELSE <<m>> \o sorted

RECURSIVE OrderByCreatedAt(_)
OrderByCreatedAt(ms) ==
    IF ms = <<>> THEN <<>>
    ELSE InsertSorted(OrderByCreatedAt(SubSeq(ms, 1, Len(ms) - 1)), ms[Len(ms)])

\* SELECT sender, message, created_at FROM messages WHERE room_name = $1 ORDER BY created_at ASC
SelectMessages(ms, room) ==
    LET mine == OrderByCreatedAt(SelectSeq(ms, LAMBDA m : m.room_name = room))
    IN  [i \in 1..Len(mine) |->
            [sender |-> mine[i].sender, message |-> mine[i].message,
             created_at |-> mine[i].created_at]]

\* client.query(text, params): the store rejects a Bind message whose parameter
\* count differs from the number of placeholders of the statement
BindAccepted(placeholders, params) == placeholders = Len(params)

\* ----------------------------------------------------- the store functions
\* getRoomsFromDB(type = null): names of all rooms, [] when the query throws
getRoomsFromDBNone(rs, err) == {}
getRoomsFromDB(rs, err) ==
    IF err THEN {} ELSE {rs[i].name : i \in 1..Len(rs)}

\* getRoomByName(roomName): rows of the name (rows[0] is the answer), null when the query throws
getRoomByName(rs, roomName, err) ==
    IF err THEN <<>> ELSE SelectRoom(rs, roomName)

\* getMessagesFromDB(roomName, limit = 50, offset = 0): passes [roomName, limit, offset]
\* to a statement whose only placeholder is $1; [] when the query throws
getMessagesFromDB(ms, roomName, err) ==
    IF err \/ ~BindAccepted(1, <<roomName, 50, 0>>) THEN <<>>
    ELSE SelectMessages(ms, roomName)

\* ------------------------------------------------------------- socket.io
Connected(c) == sockets[c] = "connected"

\* socket.join(room): adds the room to the socket's rooms, connected or not
SocketJoinBroken(mem, c, room) == mem
SocketJoin(mem, c, room) == [mem EXCEPT ![c] = @ \cup {room}]

\* socket.leave(room)
SocketLeaveBroken(mem, c, room) == mem
SocketLeave(mem, c, room) == [mem EXCEPT ![c] = @ \ {room}]

\* io.to(room): the connected sockets that have joined room
IoTo(mem, room) == {c \in Conns : Connected(c) /\ room \in mem[c]}

\* socket.to(room): the same, without the socket itself
SocketTo(mem, c, room) == IoTo(mem, room) \ {c}

\* io.emit: every connected socket
IoAll == {c \in Conns : Connected(c)}

\* socket.emit: the socket itself, if it is still connected
SocketSelf(c) == IF Connected(c) THEN {c} ELSE {}

\* one event as received by each socket of `targets`; req is the inbound event that caused it
Emit(targets, ev, req, room, info, names) ==
    {[to |-> c, ev |-> ev, req |-> req, room |-> room, info |-> info, names |-> names,
      history |-> <<>>] : c \in targets}

\* io.emit('availableRooms', names): nth numbers the list broadcasts in the
\* order the server sends them, which is the order each client receives them in
EmitList(targets, req, names) ==
    LET sent == {d.req : d \in {e \in delivered : e.ev = "availableRooms"}}
    IN  {[to |-> c, ev |-> "availableRooms", req |-> req, room |-> "", info |-> "",
          names |-> names, history |-> <<>>, nth |-> Cardinality(sent) + 1] : c \in targets}

\* socket.emit('messageHistory', messages, room)
EmitHistory(targets, req, room, history) ==
    {[to |-> c, ev |-> "messageHistory", req |-> req, room |-> room, info |-> "",
      names |-> {}, history |-> history] : c \in targets}

\* ------------------------------------------------------- handler plumbing
\* the chat room a game room gets: `${roomName}-chat`
chatRoomName(roomName) == roomName \o "-chat"

Frame(c, op, room, type) ==
    [conn |-> c, op |-> op, room |-> room, type |-> type,
     roomType |-> "", companion |-> "", failed |-> FALSE, done |-> FALSE, result |-> ""]

\* a handler starts: it runs up to its first await, which issues query pc
Arrive(c, op, room, type, pc) ==
    /\ Len(reqs) < MaxEvents
    /\ Connected(c)
    /\ reqs' = Append(reqs, Frame(c, op, room, type))
    /\ queue' = Append(queue, [id |-> Len(reqs) + 1, pc |-> pc])

\* the head query is pc
At(pc) == queue # <<>> /\ Head(queue).pc = pc

\* whether this store call fails for an outside reason
Faults == IF nFail < MaxFail THEN BOOLEAN ELSE {FALSE}
Fault(err) == nFail' = nFail + (IF err THEN 1 ELSE 0)

\* the handler awaits its next query / returns
Await(pc) == queue' = Append(Tail(queue), [id |-> Head(queue).id, pc |-> pc])
Return == queue' = Tail(queue)

\* a state of the running server from which events are observed: the store holds
\* the rooms of one of `stored`, every socket of Conns has connected
\* (io.on('connection') has registered its handlers) and has joined the rooms one
\* of `joined` gives it, and no handler is suspended
Started(stored, joined) ==
    /\ rooms \in stored
    /\ messages = <<>>
    /\ clock = 0
    /\ sockets = [c \in Conns |-> "connected"]
    /\ members \in joined
    /\ queue = <<>>
    /\ reqs = <<>>
    /\ delivered = {}
    /\ nFail = 0

Init ==
    Started({<<>>,
             <<[name |-> "a", type |-> "chat"]>>,
             <<[name |-> "a", type |-> "game"]>>,
             <<[name |-> "a-chat", type |-> "game"]>>,
             <<[name |-> "a", type |-> "game"], [name |-> "a-chat", type |-> "chat"]>>},
            {[c \in Conns |-> {}]})

\* the transport closes the socket: socket.io drops it from every room it joined
Disconnect(c) ==
    /\ Connected(c)
    /\ sockets' = [sockets EXCEPT ![c] = "closed"]
    /\ members' = [members EXCEPT ![c] = {}]
    /\ UNCHANGED <<rooms, messages, clock, queue, reqs, delivered, nFail>>


\* ---------------------------------------------------------- createRoomInDB
\* createRoomInDB, lines 62-76: the SELECT and what follows it.
\* "null": the function returns null; "insert": it goes on to the INSERT
createRoomInDB_check(rs, newRoom, err) ==
    IF err THEN "null"
    ELSE IF Len(SelectRoom(rs, newRoom)) > 0 THEN "null"
    ELSE "insert"

\* createRoomInDB, lines 78-86: the INSERT and the return value
createRoomInDB_insertSwallow(rs, newRoom, type, err) ==
    IF err \/ PrimaryKeyViolation(rs, newRoom)
    THEN [rooms |-> rs, ret |-> newRoom, threw |-> TRUE]
    ELSE [rooms |-> InsertRoom(rs, newRoom, type), ret |-> newRoom, threw |-> FALSE]
createRoomInDB_insert(rs, newRoom, type, err) ==
    IF err \/ PrimaryKeyViolation(rs, newRoom)
    THEN [rooms |-> rs, ret |-> "null", threw |-> TRUE]
    ELSE [rooms |-> InsertRoom(rs, newRoom, type), ret |-> newRoom, threw |-> FALSE]

\* the type of the stored room, "none" when rows is empty
TypeOf(rows) == IF Len(rows) > 0 THEN rows[1].type ELSE "none"

\* ------------------------------------------------------ socket.on('createRoom')
\* lines 189-197: the arguments are checked, getRoomByName is awaited
createRoom(c, name, type) ==
    /\ Arrive(c, "createRoom", name, type, "cr_get")
    /\ UNCHANGED <<rooms, messages, clock, sockets, members, delivered, nFail>>

\* lines 197-204: getRoomByName answers
createRoom_getRoomByName ==
    /\ At("cr_get")
    /\ \E err \in Faults :
        LET r == Head(queue).id
            f == reqs[r]
            existingRoom == getRoomByName(rooms, f.room, err)
        IN  /\ Fault(err)
            /\ IF Len(existingRoom) > 0
               THEN /\ delivered' = delivered \cup
                        Emit(SocketSelf(f.conn), "createRoomResponse", r, f.room,
                             "Room already exists", {})
                    /\ reqs' = [reqs EXCEPT ![r].roomType = TypeOf(existingRoom),
                                            ![r].result = "Room already exists",
                                            ![r].done = TRUE]
                    /\ Return
               ELSE /\ delivered' = delivered
                    /\ reqs' = [reqs EXCEPT ![r].roomType = "none",
                                            ![r].failed = @ \/ err]
                    /\ Await("cr_check")
    /\ UNCHANGED <<rooms, messages, clock, sockets, members>>

\* lines 204-208 with createRoomInDB's SELECT
createRoom_check ==
    /\ At("cr_check")
    /\ \E err \in Faults :
        LET r == Head(queue).id
            f == reqs[r]
        IN  /\ Fault(err)
            /\ IF createRoomInDB_check(rooms, f.room, err) = "null"
               THEN /\ delivered' = delivered \cup
                        Emit(SocketSelf(f.conn), "createRoomResponse", r, f.room,
                             "Error creating room", {})
                    /\ reqs' = [reqs EXCEPT ![r].failed = @ \/ err,
                                            ![r].result = "Error creating room",
                                            ![r].done = TRUE]
                    /\ Return
               ELSE /\ UNCHANGED <<delivered, reqs>>
                    /\ Await("cr_insert")
    /\ UNCHANGED <<rooms, messages, clock, sockets, members>>

\* lines 204-214 with createRoomInDB's INSERT
createRoom_insert ==
    /\ At("cr_insert")
    /\ \E err \in Faults :
        LET r == Head(queue).id
            f == reqs[r]
            ins == createRoomInDB_insert(rooms, f.room, f.type, err)
        IN  /\ Fault(err)
            /\ rooms' = ins.rooms
            /\ IF ins.ret = "null"
               THEN /\ delivered' = delivered \cup
                        Emit(SocketSelf(f.conn), "createRoomResponse", r, f.room,
                             "Error creating room", {})
                    /\ reqs' = [reqs EXCEPT ![r].failed = TRUE,
                                            ![r].result = "Error creating room",
                                            ![r].done = TRUE]
                    /\ Return
               ELSE /\ delivered' = delivered \cup
                        Emit(SocketSelf(f.conn), "createRoomResponse", r, f.room,
                             "success", {})
                    /\ reqs' = [reqs EXCEPT ![r].failed = @ \/ ins.threw,
                                            ![r].result = "success"]
                    /\ Await("cr_list")
    /\ UNCHANGED <<messages, clock, sockets, members>>

\* lines 214-215: getRoomsFromDB answers, the list goes to every client
createRoom_list ==
    /\ At("cr_list")
    /\ \E err \in Faults :
        LET r == Head(queue).id
            f == reqs[r]
            allRooms == getRoomsFromDB(rooms, err)
        IN  /\ Fault(err)
            /\ delivered' = delivered \cup EmitList(IoAll, r, allRooms)
            /\ reqs' = [reqs EXCEPT ![r].failed = @ \/ err, ![r].done = TRUE]
            /\ Return
    /\ UNCHANGED <<rooms, messages, clock, sockets, members>>


\* -------------------------------------------------- socket.on('createGameRoom')
\* lines 138-141: createRoomInDB(roomName, "game") is awaited
createGameRoom(c, roomName) ==
    /\ Arrive(c, "createGameRoom", roomName, "game", "cg_check")
    /\ UNCHANGED <<rooms, messages, clock, sockets, members, delivered, nFail>>

\* lines 141-145 with createRoomInDB's SELECT
createGameRoom_check ==
    /\ At("cg_check")
    /\ \E err \in Faults :
        LET r == Head(queue).id
            f == reqs[r]
        IN  /\ Fault(err)
            /\ IF createRoomInDB_check(rooms, f.room, err) = "null"
               THEN /\ delivered' = delivered \cup
                        Emit(SocketSelf(f.conn), "createRoomResponse", r, f.room,
                             "Room already exists!", {})
                    /\ reqs' = [reqs EXCEPT ![r].roomType = TypeOf(SelectRoom(rooms, f.room)),
                                            ![r].failed = @ \/ err,
                                            ![r].result = "Room already exists!",
                                            ![r].done = TRUE]
                    /\ Return
               ELSE /\ delivered' = delivered
                    /\ reqs' = [reqs EXCEPT ![r].roomType = "none"]
                    /\ Await("cg_insert")
    /\ UNCHANGED <<rooms, messages, clock, sockets, members>>

\* lines 141-149 with createRoomInDB's INSERT; then createRoomInDB(chatRoomName, "chat")
createGameRoom_insert ==
    /\ At("cg_insert")
    /\ \E err \in Faults :
        LET r == Head(queue).id
            f == reqs[r]
            ins == createRoomInDB_insert(rooms, f.room, "game", err)
        IN  /\ Fault(err)
            /\ rooms' = ins.rooms
            /\ IF ins.ret = "null"
               THEN /\ delivered' = delivered \cup
                        Emit(SocketSelf(f.conn), "createRoomResponse", r, f.room,
                             "Room already exists!", {})
                    /\ reqs' = [reqs EXCEPT ![r].failed = TRUE,
                                            ![r].result = "Room already exists!",
                                            ![r].done = TRUE]
                    /\ Return
               ELSE /\ delivered' = delivered
                    /\ reqs' = [reqs EXCEPT ![r].failed = @ \/ ins.threw]
                    /\ Await("cg_chatCheck")
    /\ UNCHANGED <<messages, clock, sockets, members>>

\* lines 152-159: both rooms are joined, the answer is sent, getRoomsFromDB is awaited
createGameRoom_joinBoth(r, companion, threw) ==
    LET f == reqs[r]
        joined == SocketJoin(SocketJoin(members, f.conn, f.room),
                             f.conn, chatRoomName(f.room))
    IN  /\ members' = joined
        /\ delivered' = delivered \cup
              Emit(SocketSelf(f.conn), "createRoomResponse", r, f.room, "success", {})
        /\ reqs' = [reqs EXCEPT ![r].companion = companion,
                                ![r].failed = @ \/ threw,
                                ![r].result = "success"]
        /\ Await("cg_list")

\* line 149 with the SELECT of the second createRoomInDB
createGameRoom_chatCheckStrict ==
    /\ At("cg_chatCheck")
    /\ \E err \in Faults :
        LET r == Head(queue).id
            f == reqs[r]
        IN  /\ Fault(err)
            /\ IF createRoomInDB_check(rooms, chatRoomName(f.room), err) = "null"
               THEN /\ members' = members
                    /\ delivered' = delivered \cup
                         Emit(SocketSelf(f.conn), "createRoomResponse", r, f.room,
                              "Error creating room", {})
                    /\ reqs' = [reqs EXCEPT ![r].failed = @ \/ err,
                                            ![r].result = "Error creating room",
                                            ![r].done = TRUE]
                    /\ Return
               ELSE /\ UNCHANGED <<members, delivered, reqs>>
                    /\ Await("cg_chatInsert")
    /\ UNCHANGED <<rooms, messages, clock, sockets>>
createGameRoom_chatCheck ==
    /\ At("cg_chatCheck")
    /\ \E err \in Faults :
        LET r == Head(queue).id
            f == reqs[r]
        IN  /\ Fault(err)
            /\ IF createRoomInDB_check(rooms, chatRoomName(f.room), err) = "null"
               THEN createGameRoom_joinBoth(r, IF err THEN "failed" ELSE "exists", err)
               ELSE /\ UNCHANGED <<members, delivered, reqs>>
                    /\ Await("cg_chatInsert")
    /\ UNCHANGED <<rooms, messages, clock, sockets>>

\* line 149 with the INSERT of the second createRoomInDB; its result is not looked at
createGameRoom_chatInsert ==
    /\ At("cg_chatInsert")
    /\ \E err \in Faults :
        LET r == Head(queue).id
            f == reqs[r]
            ins == createRoomInDB_insert(rooms, chatRoomName(f.room), "chat", err)
        IN  /\ Fault(err)
            /\ rooms' = ins.rooms
            /\ createGameRoom_joinBoth(r, IF ins.threw THEN "failed" ELSE "created",
                                       ins.threw)
    /\ UNCHANGED <<messages, clock, sockets>>

\* line 159: getRoomsFromDB answers, the list goes to every client
createGameRoom_list ==
    /\ At("cg_list")
    /\ \E err \in Faults :
        LET r == Head(queue).id
            allRooms == getRoomsFromDB(rooms, err)
        IN  /\ Fault(err)
            /\ delivered' = delivered \cup EmitList(IoAll, r, allRooms)
            /\ reqs' = [reqs EXCEPT ![r].failed = @ \/ err, ![r].done = TRUE]
            /\ Return
    /\ UNCHANGED <<rooms, messages, clock, sockets, members>>

\* ---------------------------------------------------- socket.on('joinGameRoom')
\* line 173: `!roomRes.rows.length === 0` compares a boolean with the number 0
\* by strict equality, which is false whatever the boolean is
NotLengthStrictEqualsZero(rows) ==
    LET notLength == (Len(rows) = 0) IN notLength /\ ~notLength

\* lines 169-172
joinGameRoom(c, roomName) ==
    /\ Arrive(c, "joinGameRoom", roomName, "", "jg_check")
    /\ UNCHANGED <<rooms, messages, clock, sockets, members, delivered, nFail>>

\* lines 172-183
joinGameRoom_check ==
    /\ At("jg_check")
    /\ \E err \in Faults :
        LET r == Head(queue).id
            f == reqs[r]
            rows == SelectRoomOfType(rooms, f.room, "game")
        IN  /\ Fault(err)
            /\ IF err
               THEN /\ members' = members
                    /\ delivered' = delivered \cup
                         Emit(SocketSelf(f.conn), "joinRoomError", r, f.room,
                              "An error occurred while joining the game room.", {})
                    /\ reqs' = [reqs EXCEPT ![r].failed = TRUE, ![r].result = "error",
                                            ![r].done = TRUE]
               ELSE IF NotLengthStrictEqualsZero(rows)
               THEN /\ members' = members
                    /\ delivered' = delivered \cup
                         Emit(SocketSelf(f.conn), "joinRoomError", r, f.room,
                              "Game room not found!", {})
                    /\ reqs' = [reqs EXCEPT ![r].roomType = TypeOf(rows),
                                            ![r].result = "error", ![r].done = TRUE]
               ELSE /\ members' = SocketJoin(members, f.conn, f.room)
                    /\ delivered' = delivered \cup
                         Emit(IoTo(members', f.room), "user_joined", r, f.room, "", {})
                    /\ reqs' = [reqs EXCEPT ![r].roomType = TypeOf(rows),
                                            ![r].result = "joined", ![r].done = TRUE]
            /\ Return
    /\ UNCHANGED <<rooms, messages, clock, sockets>>

\* ------------------------------------------------------- socket.on('join-room')
\* lines 242-244
joinRoom(c, room) ==
    /\ Arrive(c, "join-room", room, "", "jr_check")
    /\ UNCHANGED <<rooms, messages, clock, sockets, members, delivered, nFail>>

\* lines 244-251
joinRoom_check ==
    /\ At("jr_check")
    /\ \E err \in Faults :
        LET r == Head(queue).id
            f == reqs[r]
            rows == SelectRoomOfType(rooms, f.room, "chat")
        IN  /\ Fault(err)
            /\ IF err
               THEN /\ UNCHANGED <<members, delivered>>
                    /\ reqs' = [reqs EXCEPT ![r].failed = TRUE, ![r].result = "error",
                                            ![r].done = TRUE]
                    /\ Return
               ELSE IF Len(rows) = 0
               THEN /\ members' = members
                    /\ delivered' = delivered \cup
                         Emit(SocketSelf(f.conn), "joinRoomError", r, f.room,
                              "Chat room does not exist!", {})
                    /\ reqs' = [reqs EXCEPT ![r].roomType = "none",
                                            ![r].result = "error", ![r].done = TRUE]
                    /\ Return
               ELSE /\ members' = SocketJoin(members, f.conn, f.room)
                    /\ delivered' = delivered
                    /\ reqs' = [reqs EXCEPT ![r].roomType = TypeOf(rows),
                                            ![r].result = "joined"]
                    /\ Await("jr_history")
    /\ UNCHANGED <<rooms, messages, clock, sockets>>

\* lines 251-253: getMessagesFromDB answers
joinRoom_history ==
    /\ At("jr_history")
    /\ \E err \in Faults :
        LET r == Head(queue).id
            f == reqs[r]
            history == getMessagesFromDB(messages, f.room, err)
        IN  /\ Fault(err)
            /\ delivered' = delivered
                  \cup EmitHistory(SocketSelf(f.conn), r, f.room, history)
                  \cup Emit(IoTo(members, f.room), "user_joined", r, f.room, "", {})
            /\ reqs' = [reqs EXCEPT ![r].failed = @ \/ err, ![r].done = TRUE]
            /\ Return
    /\ UNCHANGED <<rooms, messages, clock, sockets, members>>


\* ----------------------------------------------------- saveMessageToDatabase
\* lines 92-99: the INSERT; a failure is logged and not passed on
saveMessageToDatabaseUnchecked(rs, ms, room, message, sender, type, now, err) ==
    IF err
    THEN [messages |-> ms, clock |-> now, threw |-> TRUE]
    ELSE [messages |-> InsertMessage(ms, room, message, sender, type, Timestamp(now)),
          clock |-> Timestamp(now), threw |-> FALSE]
saveMessageToDatabase(rs, ms, room, message, sender, type, now, err) ==
    IF err \/ ~BindAccepted(4, <<room, message, sender, type>>)
           \/ ForeignKeyViolation(rs, ms, room, FALSE)
    THEN [messages |-> ms, clock |-> now, threw |-> TRUE]
    ELSE [messages |-> InsertMessage(ms, room, message, sender, type, Timestamp(now)),
          clock |-> Timestamp(now), threw |-> FALSE]

\* --------------------------------------------------------- socket.on('message')
\* lines 287-290; the message text is the number of the event, the sender the socket
message(c, room) ==
    /\ Arrive(c, "message", room, "", "ms_type")
    /\ UNCHANGED <<rooms, messages, clock, sockets, members, delivered, nFail>>

\* line 293: `if (roomType !== 'chat') return`
IgnoredAsChat(roomType) == roomType # "chat"

\* lines 290-295: the type lookup answers; rows[0].type of no row throws
message_typeAssumeChat ==
    /\ At("ms_type")
    /\ \E err \in Faults :
        LET r == Head(queue).id
            f == reqs[r]
            rows == SelectRoom(rooms, f.room)
        IN  /\ Fault(err)
            /\ IF err
               THEN /\ reqs' = [reqs EXCEPT ![r].failed = TRUE,
                                            ![r].result = "error", ![r].done = TRUE]
                    /\ Return
               ELSE IF Len(rows) > 0 /\ IgnoredAsChat(rows[1].type)
               THEN /\ reqs' = [reqs EXCEPT ![r].roomType = rows[1].type,
                                            ![r].result = "ignored", ![r].done = TRUE]
                    /\ Return
               ELSE /\ reqs' = [reqs EXCEPT ![r].roomType = "chat"]
                    /\ Await("ms_insert")
    /\ UNCHANGED <<rooms, messages, clock, sockets, members, delivered>>
message_typeBroadcastFirst ==
    /\ At("ms_type")
    /\ \E err \in Faults :
        LET r == Head(queue).id
            f == reqs[r]
            rows == SelectRoom(rooms, f.room)
        IN  /\ Fault(err)
            /\ IF err \/ Len(rows) = 0
               THEN /\ delivered' = delivered
                    /\ reqs' = [reqs EXCEPT ![r].roomType = IF err THEN "" ELSE "none",
                                            ![r].failed = @ \/ err,
                                            ![r].result = "error", ![r].done = TRUE]
                    /\ Return
               ELSE IF IgnoredAsChat(rows[1].type)
               THEN /\ delivered' = delivered
                    /\ reqs' = [reqs EXCEPT ![r].roomType = rows[1].type,
                                            ![r].result = "ignored", ![r].done = TRUE]
                    /\ Return
               ELSE /\ delivered' = delivered \cup
                         Emit(IoTo(members, f.room), "newMessage", r, f.room, "", {})
                    /\ reqs' = [reqs EXCEPT ![r].roomType = rows[1].type]
                    /\ Await("ms_insert")
    /\ UNCHANGED <<rooms, messages, clock, sockets, members>>
message_type ==
    /\ At("ms_type")
    /\ \E err \in Faults :
        LET r == Head(queue).id
            f == reqs[r]
            rows == SelectRoom(rooms, f.room)
        IN  /\ Fault(err)
            /\ IF err \/ Len(rows) = 0
               THEN /\ reqs' = [reqs EXCEPT ![r].roomType = IF err THEN "" ELSE "none",
                                            ![r].failed = @ \/ err,
                                            ![r].result = "error", ![r].done = TRUE]
                    /\ Return
               ELSE IF IgnoredAsChat(rows[1].type)
               THEN /\ reqs' = [reqs EXCEPT ![r].roomType = rows[1].type,
                                            ![r].result = "ignored", ![r].done = TRUE]
                    /\ Return
               ELSE /\ reqs' = [reqs EXCEPT ![r].roomType = rows[1].type]
                    /\ Await("ms_insert")
    /\ UNCHANGED <<rooms, messages, clock, sockets, members, delivered>>

\* io.to(room).emit('newMessage', { sender, message })
newMessageTargetsOthers(mem, c, room) == SocketTo(mem, c, room)
newMessageTargets(mem, c, room) == IoTo(mem, room)

\* lines 295-296: saveMessageToDatabase answers, then the broadcast
message_insertFailClosed ==
    /\ At("ms_insert")
    /\ \E err \in Faults :
        LET r == Head(queue).id
            f == reqs[r]
            saved == saveMessageToDatabase(rooms, messages, f.room, r, f.conn, "chat",
                                           clock, err)
        IN  /\ Fault(err)
            /\ messages' = saved.messages
            /\ clock' = saved.clock
            /\ delivered' = delivered \cup
                  IF saved.threw THEN {}
                  ELSE Emit(newMessageTargets(members, f.conn, f.room), "newMessage", r,
                            f.room, "", {})
            /\ reqs' = [reqs EXCEPT ![r].failed = @ \/ saved.threw,
                                    ![r].result = "sent", ![r].done = TRUE]
            /\ Return
    /\ UNCHANGED <<rooms, sockets, members>>
message_insert ==
    /\ At("ms_insert")
    /\ \E err \in Faults :
        LET r == Head(queue).id
            f == reqs[r]
            saved == saveMessageToDatabase(rooms, messages, f.room, r, f.conn, "chat",
                                           clock, err)
        IN  /\ Fault(err)
            /\ messages' = saved.messages
            /\ clock' = saved.clock
            /\ delivered' = delivered \cup
                  Emit(newMessageTargets(members, f.conn, f.room), "newMessage", r,
                       f.room, "", {})
            /\ reqs' = [reqs EXCEPT ![r].failed = @ \/ saved.threw,
                                    ![r].result = "sent", ![r].done = TRUE]
            /\ Return
    /\ UNCHANGED <<rooms, sockets, members>>

\* ----------------------------------------------------- socket.on('gameMessage')
\* lines 303-308
gameMessage(c, room) ==
    /\ Arrive(c, "gameMessage", room, "", "gm_type")
    /\ UNCHANGED <<rooms, messages, clock, sockets, members, delivered, nFail>>

\* line 311: `if (roomType !== 'game') return`
IgnoredAsGameNoCheck(roomType) == FALSE
IgnoredAsGame(roomType) == roomType # "game"

\* socket.to(room).emit("gameMessage", { sender, message })
gameMessageTargetsAll(mem, c, room) == IoTo(mem, room)
gameMessageTargets(mem, c, room) == SocketTo(mem, c, room)

\* lines 308-314
gameMessage_type ==
    /\ At("gm_type")
    /\ \E err \in Faults :
        LET r == Head(queue).id
            f == reqs[r]
            rows == SelectRoom(rooms, f.room)
        IN  /\ Fault(err)
            /\ IF err \/ Len(rows) = 0
               THEN /\ delivered' = delivered
                    /\ reqs' = [reqs EXCEPT ![r].roomType = IF err THEN "" ELSE "none",
                                            ![r].failed = @ \/ err,
                                            ![r].result = "error", ![r].done = TRUE]
               ELSE IF IgnoredAsGame(rows[1].type)
               THEN /\ delivered' = delivered
                    /\ reqs' = [reqs EXCEPT ![r].roomType = rows[1].type,
                                            ![r].result = "ignored", ![r].done = TRUE]
               ELSE /\ delivered' = delivered \cup
                         Emit(gameMessageTargets(members, f.conn, f.room), "gameMessage",
                              r, f.room, "", {})
                    /\ reqs' = [reqs EXCEPT ![r].roomType = rows[1].type,
                                            ![r].result = "sent", ![r].done = TRUE]
            /\ Return
    /\ UNCHANGED <<rooms, messages, clock, sockets, members>>

\* ------------------------------------------------------- socket.on('leave-room')
\* lines 322-326: no store call
leaveRoom(c, room) ==
    /\ Len(reqs) < MaxEvents
    /\ Connected(c)
    /\ members' = SocketLeave(members, c, room)
    /\ delivered' = delivered \cup
          Emit(SocketTo(members', c, room), "user_left", Len(reqs) + 1, room, "", {})
    /\ reqs' = Append(reqs, [Frame(c, "leave-room", room, "") EXCEPT
                                !.result = "left", !.done = TRUE])
    /\ UNCHANGED <<rooms, messages, clock, sockets, queue, nFail>>

\* ------------------------------------------------------- socket.on('removeRoom')
\* lines 329-335: the members are told first, then the message rows are deleted
removeRoom(c, roomToRemove) ==
    /\ Arrive(c, "removeRoom", roomToRemove, "", "rm_messages")
    /\ delivered' = delivered \cup
          Emit(IoTo(members, roomToRemove), "room_removed", Len(reqs) + 1,
               roomToRemove, "", {})
    /\ UNCHANGED <<rooms, messages, clock, sockets, members, nFail>>

\* lines 342-345: the catch block
removeRoom_catch(r) ==
    /\ delivered' = delivered \cup
          Emit(IoTo(members, reqs[r].room), "room_removed_error", r, reqs[r].room,
               "An error occurred while deleting the room.", {})
    /\ reqs' = [reqs EXCEPT ![r].failed = TRUE, ![r].result = "error", ![r].done = TRUE]
    /\ Return

\* lines 335-336: DELETE FROM messages answers
removeRoom_messages ==
    /\ At("rm_messages")
    /\ \E err \in Faults :
        LET r == Head(queue).id
            f == reqs[r]
        IN  /\ Fault(err)
            /\ IF err
               THEN /\ messages' = messages
                    /\ removeRoom_catch(r)
               ELSE /\ messages' = DeleteMessages(messages, f.room)
                    /\ UNCHANGED <<delivered, reqs>>
                    /\ Await("rm_room")
    /\ UNCHANGED <<rooms, clock, sockets, members>>

\* lines 336-339: DELETE FROM rooms answers
removeRoom_room ==
    /\ At("rm_room")
    /\ \E err \in Faults :
        LET r == Head(queue).id
            f == reqs[r]
        IN  /\ Fault(err)
            /\ IF err \/ ForeignKeyViolation(rooms, messages, f.room, TRUE)
               THEN /\ rooms' = rooms
                    /\ removeRoom_catch(r)
               ELSE /\ rooms' = DeleteRoom(rooms, f.room)
                    /\ delivered' = delivered
                    /\ reqs' = [reqs EXCEPT ![r].result = "removed"]
                    /\ Await("rm_list")
    /\ UNCHANGED <<messages, clock, sockets, members>>

\* lines 339-340: getRoomsFromDB answers, the list goes to every client
removeRoom_list ==
    /\ At("rm_list")
    /\ \E err \in Faults :
        LET r == Head(queue).id
            updatedRooms == getRoomsFromDB(rooms, err)
        IN  /\ Fault(err)
            /\ delivered' = delivered \cup EmitList(IoAll, r, updatedRooms)
            /\ reqs' = [reqs EXCEPT ![r].failed = @ \/ err, ![r].done = TRUE]
            /\ Return
    /\ UNCHANGED <<rooms, messages, clock, sockets, members>>

\* ------------------------------------------------------------ specifications
\* the store answers the pg Client's head query and its handler runs on
StoreAnswers ==
    \/ createRoom_getRoomByName \/ createRoom_check \/ createRoom_insert \/ createRoom_list
    \/ createGameRoom_check \/ createGameRoom_insert \/ createGameRoom_chatCheck
    \/ createGameRoom_chatInsert \/ createGameRoom_list
    \/ joinGameRoom_check
    \/ joinRoom_check \/ joinRoom_history
    \/ message_type \/ message_insert
    \/ gameMessage_type
    \/ removeRoom_messages \/ removeRoom_room \/ removeRoom_list

Next ==
    \/ \E c \in Conns : Disconnect(c)
    \/ \E c \in Conns, name \in RoomNames, type \in Types : createRoom(c, name, type)
    \/ \E c \in Conns, name \in GameNames : createGameRoom(c, name)
    \/ \E c \in Conns, name \in RoomNames : joinGameRoom(c, name)
    \/ \E c \in Conns, name \in RoomNames : joinRoom(c, name)
    \/ \E c \in Conns, name \in RoomNames : message(c, name)
    \/ \E c \in Conns, name \in RoomNames : gameMessage(c, name)
    \/ \E c \in Conns, name \in RoomNames : leaveRoom(c, name)
    \/ \E c \in Conns, name \in RoomNames : removeRoom(c, name)
    \/ StoreAnswers

Spec == Init /\ [][Next]_vars


\* Room creation: the creation handlers of one name against each other
MaxCreateEvents == 2

NextCreate ==
    \/ /\ Len(reqs) < MaxCreateEvents
       /\ \/ \E c \in Conns, name \in GameNames, type \in Types : createRoom(c, name, type)
          \/ \E c \in Conns, name \in GameNames : createGameRoom(c, name)
    \/ createRoom_getRoomByName \/ createRoom_check \/ createRoom_insert \/ createRoom_list
    \/ createGameRoom_check \/ createGameRoom_insert \/ createGameRoom_chatCheck
    \/ createGameRoom_chatInsert \/ createGameRoom_list

InitCreate ==
    Started({<<>>,
             <<[name |-> "a", type |-> "chat"]>>,
             <<[name |-> "a-chat", type |-> "game"]>>},
            {[c \in Conns |-> {}]})

SpecCreate == InitCreate /\ [][NextCreate]_vars

\* Message routing: chat and game messages against joins and against the
\* removal and re-creation of the room they name
MaxMessageEvents == 2

NextMessage ==
    \/ /\ Len(reqs) < MaxMessageEvents
       /\ \/ \E c \in Conns, name \in GameNames : joinRoom(c, name)
          \/ \E c \in Conns, name \in GameNames : joinGameRoom(c, name)
          \/ \E c \in Conns, name \in GameNames : message(c, name)
          \/ \E c \in Conns, name \in GameNames : gameMessage(c, name)
          \/ \E c \in Conns, name \in GameNames : removeRoom(c, name)
          \/ \E c \in Conns, name \in GameNames, type \in Types : createRoom(c, name, type)
    \/ createRoom_getRoomByName \/ createRoom_check \/ createRoom_insert \/ createRoom_list
    \/ joinGameRoom_check
    \/ joinRoom_check \/ joinRoom_history
    \/ message_type \/ message_insert
    \/ gameMessage_type
    \/ removeRoom_messages \/ removeRoom_room \/ removeRoom_list

\* the sockets are interchangeable: the ones that have joined the room are
\* taken to be the first k, for every k
InitMessage ==
    Started({<<[name |-> "a", type |-> "chat"]>>,
             <<[name |-> "a", type |-> "game"]>>},
            {[c \in Conns |-> IF c <= k THEN GameNames ELSE {}] : k \in 0..NumConns})

SpecMessage == InitMessage /\ [][NextMessage]_vars

\* Membership: one socket joins, leaves and disconnects; the other sockets join
MaxMemberEvents == 3
Leaver == CHOOSE c \in Conns : \A d \in Conns : c <= d

NextMember ==
    \/ Disconnect(Leaver)
    \/ /\ Len(reqs) < MaxMemberEvents
       /\ \/ \E name \in RoomNames : joinRoom(Leaver, name)
          \/ \E name \in RoomNames : leaveRoom(Leaver, name)
          \/ \E c \in Conns, name \in GameNames : joinGameRoom(c, name)
    \/ joinGameRoom_check
    \/ joinRoom_check \/ joinRoom_history

InitMember ==
    Started({<<[name |-> "a", type |-> "game"], [name |-> "a-chat", type |-> "chat"]>>,
             <<[name |-> "a", type |-> "chat"], [name |-> "a-chat", type |-> "chat"]>>},
            {[c \in Conns |-> {}]})

SpecMember == InitMember /\ [][NextMember]_vars

\* Game room creation: one socket creates a game room, and may leave or
\* disconnect; the other sockets create and remove the rooms it needs
MaxGameEvents == 2
Creator == CHOOSE c \in Conns : \A d \in Conns : c <= d

NextGame ==
    \/ Disconnect(Creator)
    \/ /\ Len(reqs) < MaxGameEvents
       /\ \/ \E name \in GameNames : createGameRoom(Creator, name)
          \/ \E name \in RoomNames : leaveRoom(Creator, name)
          \/ \E c \in Conns \ {Creator}, name \in GameNames, type \in Types :
                createRoom(c, chatRoomName(name), type)
          \/ \E c \in Conns \ {Creator}, name \in RoomNames : removeRoom(c, name)
    \/ createRoom_getRoomByName \/ createRoom_check \/ createRoom_insert \/ createRoom_list
    \/ createGameRoom_check \/ createGameRoom_insert \/ createGameRoom_chatCheck
    \/ createGameRoom_chatInsert \/ createGameRoom_list
    \/ removeRoom_messages \/ removeRoom_room \/ removeRoom_list

SpecGame == InitCreate /\ [][NextGame]_vars

\* Re-creation: one socket creates a room, removes it and creates it again with
\* either type while it sends messages to it; every socket has joined the name
\* (socket.join asks for no stored room, and joinGameRoom joins whatever its
\* lookup finds)
MaxRetypeEvents == 4

NextRetype ==
    \/ /\ Len(reqs) < MaxRetypeEvents
       /\ \/ \E name \in GameNames, type \in Types : createRoom(Creator, name, type)
          \/ \E name \in GameNames : message(Creator, name)
          \/ \E name \in GameNames : removeRoom(Creator, name)
    \/ createRoom_getRoomByName \/ createRoom_check \/ createRoom_insert \/ createRoom_list
    \/ message_type \/ message_insert
    \/ removeRoom_messages \/ removeRoom_room \/ removeRoom_list

InitRetype == Started({<<>>}, {[c \in Conns |-> GameNames]})

SpecRetype == InitRetype /\ [][NextRetype]_vars

\* Absent room: one socket sends messages to a name that has no row yet and
\* that every socket has joined, and the other sockets create the room
MaxAbsentEvents == 3

NextAbsent ==
    \/ /\ Len(reqs) < MaxAbsentEvents
       /\ \/ \E c \in Conns \ {Creator}, name \in GameNames, type \in Types :
                createRoom(c, name, type)
          \/ \E name \in GameNames : message(Creator, name)
          \/ \E name \in GameNames : gameMessage(Creator, name)
    \/ createRoom_getRoomByName \/ createRoom_check \/ createRoom_insert \/ createRoom_list
    \/ message_type \/ message_insert
    \/ gameMessage_type

SpecAbsent == InitRetype /\ [][NextAbsent]_vars

\* ------------------------------------------------------------------- claims
Requests == 1..Len(reqs)

\* the requests that ask for the creation of room n
Creates(n) ==
    {r \in Requests : reqs[r].op \in {"createRoom", "createGameRoom"} /\ reqs[r].room = n}

\* the createRoomResponse events request r was answered with
Answers(r) == {d \in delivered : d.req = r /\ d.ev = "createRoomResponse"}
Succeeded(r) == \E d \in Answers(r) : d.info = "success"
Refused(r) == \E d \in Answers(r) : d.info # "success"

RemoveRequested(n) == \E r \in Requests : reqs[r].op = "removeRoom" /\ reqs[r].room = n
IsCompanion(n) ==
    \E r \in Requests : reqs[r].op = "createGameRoom" /\ chatRoomName(reqs[r].room) = n

\* C1 Uniqueness under concurrency: the rooms table never holds two rows of one
\* name; among the creation requests for a name that no removeRoom names, at most
\* one is answered success, and no request gets both answers; and when such a
\* name was absent when a request first looked for it, no store call failed for
\* an outside reason and every request for it has finished, exactly one request
\* was answered success and each of the others was answered with a failure.
C1_Uniqueness ==
    \A n \in RoomNames :
        /\ Len(SelectRoom(rooms, n)) <= 1
        /\ \A r \in Creates(n) : ~(Succeeded(r) /\ Refused(r))
        /\ ~RemoveRequested(n) =>
              Cardinality({r \in Creates(n) : Succeeded(r)}) <= 1
        /\ ( /\ ~RemoveRequested(n)
             /\ ~IsCompanion(n)
             /\ nFail = 0
             /\ \E r \in Creates(n) : reqs[r].roomType = "none"
             /\ \A r \in Creates(n) : reqs[r].done )
           => /\ Cardinality({r \in Creates(n) : Succeeded(r)}) = 1
              /\ \A r \in Creates(n) : Succeeded(r) \/ Refused(r)

\* two sockets asked for the same absent name, both found it absent, both got as
\* far as the INSERT, and one of them was refused there
C1_Witness ==
    \E n \in RoomNames : \E r1, r2 \in Creates(n) :
        /\ reqs[r1].conn # reqs[r2].conn
        /\ reqs[r1].done /\ reqs[r2].done
        /\ reqs[r1].roomType = "none" /\ reqs[r2].roomType = "none"
        /\ Succeeded(r1) /\ Refused(r2) /\ reqs[r2].failed
        /\ nFail = 0 /\ ~RemoveRequested(n)

\* C7 Chat room creation auto-join: when a createRoom request for a chat room
\* has been answered success and its handler has finished, the creating socket
\* is a member of the new room.
C7_CreatorIsMember ==
    \A r \in Requests :
        ( /\ reqs[r].op = "createRoom" /\ reqs[r].type = "chat"
          /\ reqs[r].done /\ Succeeded(r) )
        => reqs[r].room \in members[reqs[r].conn]


HasRoom(rs, n, t) == \E i \in 1..Len(rs) : rs[i].name = n /\ rs[i].type = t

\* request r finishes in this step
Finishes(r) == ~reqs[r].done /\ reqs'[r].done

ArrivedAfter(r, op, c, n) ==
    \E k \in 1..Len(reqs') :
        k > r /\ reqs'[k].op = op /\ reqs'[k].room = n /\ (c = 0 \/ reqs'[k].conn = c)

\* C8 Game room creation with companion, as claimed: when a createGameRoom(name)
\* that answered success finishes, the rooms table holds name with type game and
\* name-chat with type chat, and the creating socket is a member of both.
C8_GameRoomWithCompanion ==
    [][\A r \in Requests :
          (reqs[r].op = "createGameRoom" /\ Finishes(r) /\ reqs'[r].result = "success")
          => LET n == reqs[r].room
             IN  /\ HasRoom(rooms', n, "game")
                 /\ HasRoom(rooms', chatRoomName(n), "chat")
                 /\ {n, chatRoomName(n)} \subseteq members'[reqs[r].conn]]_vars

\* C8 as amended: when a createGameRoom(name) that answered success finishes,
\* the creating socket is a member of both rooms unless it has left the room or
\* disconnected since the request; the rooms table holds name with type game
\* unless a removeRoom(name) arrived after the request; and it holds name-chat
\* with type chat when the companion's INSERT succeeded, and a row name-chat of
\* whatever type when the companion already existed, unless a
\* removeRoom(name-chat) arrived after the request.
C8_GameRoomBestEffortCompanion ==
    [][\A r \in Requests :
          (reqs[r].op = "createGameRoom" /\ Finishes(r) /\ reqs'[r].result = "success")
          => LET n == reqs[r].room
                 c == reqs[r].conn
             IN  /\ \A x \in {n, chatRoomName(n)} :
                       (sockets'[c] = "connected" /\ ~ArrivedAfter(r, "leave-room", c, x))
                       => x \in members'[c]
                 /\ ~ArrivedAfter(r, "removeRoom", 0, n) => HasRoom(rooms', n, "game")
                 /\ ~ArrivedAfter(r, "removeRoom", 0, chatRoomName(n))
                    => /\ reqs'[r].companion = "created"
                          => HasRoom(rooms', chatRoomName(n), "chat")
                       /\ reqs'[r].companion = "exists"
                          => Len(SelectRoom(rooms', chatRoomName(n))) = 1]_vars

\* a createGameRoom answered success and finished while name-chat was already
\* a game room: the creator is in both rooms and the companion is no chat room
C8_Witness ==
    \E r \in Requests :
        /\ reqs[r].op = "createGameRoom" /\ reqs[r].done /\ reqs[r].result = "success"
        /\ reqs[r].companion = "exists"
        /\ HasRoom(rooms, reqs[r].room, "game")
        /\ HasRoom(rooms, chatRoomName(reqs[r].room), "game")
        /\ {reqs[r].room, chatRoomName(reqs[r].room)} \subseteq members[reqs[r].conn]


\* the connected sockets that have joined room n
MembersOf(n) == {c \in Conns : sockets[c] = "connected" /\ n \in members[c]}

\* message request r has a row in the messages table
Stored(r) == \E i \in 1..Len(messages) : messages[i].message = r

\* C2 Cascade delete: when removeRoom(name) has had both its DELETEs answered
\* without an error, the rooms table holds no row named name and
\* getMessagesFromDB(name) returns the empty sequence; and both still hold when
\* the handler finishes, unless a creation of name was requested.
C2_CascadeDelete ==
    [][\A r \in Requests :
          reqs[r].op = "removeRoom" =>
            LET n == reqs[r].room
                gone == /\ Len(SelectRoom(rooms', n)) = 0
                        /\ getMessagesFromDB(messages', n, FALSE) = <<>>
            IN  /\ (reqs[r].result # "removed" /\ reqs'[r].result = "removed") => gone
                /\ ( /\ Finishes(r) /\ reqs'[r].result = "removed"
                     /\ \A k \in 1..Len(reqs') :
                           ~(reqs'[k].op = "createRoom" /\ reqs'[k].room = n) )
                   => gone]_vars

\* a chat message was stored for the room, and a later removeRoom finished
\* without an error
C2_Witness ==
    \E m, r \in Requests :
        /\ m < r
        /\ reqs[m].op = "message" /\ reqs[m].result = "sent" /\ ~reqs[m].failed
        /\ reqs[r].op = "removeRoom" /\ reqs[r].room = reqs[m].room
        /\ reqs[r].done /\ reqs[r].result = "removed"
        /\ Len(SelectRoom(rooms, reqs[r].room)) = 0

\* C3 Type isolation: a gameMessage whose type lookup found a chat room, and a
\* message whose type lookup found a game room, is dropped: every newMessage a
\* client received comes from a message event whose lookup found type chat,
\* every gameMessage from a gameMessage event whose lookup found type game, and
\* every row of the messages table from a message event whose lookup found chat.
C3_TypeIsolation ==
    /\ \A d \in delivered :
          /\ d.ev = "newMessage" =>
                reqs[d.req].op = "message" /\ reqs[d.req].roomType = "chat"
          /\ d.ev = "gameMessage" =>
                reqs[d.req].op = "gameMessage" /\ reqs[d.req].roomType = "game"
    /\ \A i \in 1..Len(messages) :
          /\ reqs[messages[i].message].op = "message"
          /\ reqs[messages[i].message].roomType = "chat"

\* a gameMessage was sent to a chat room that another socket has joined, and
\* was dropped
C3_Witness ==
    \E r \in Requests :
        /\ reqs[r].done
        /\ reqs[r].op = "gameMessage" /\ reqs[r].roomType = "chat"
        /\ MembersOf(reqs[r].room) \ {reqs[r].conn} # {}
        /\ ~Stored(r)
        /\ \A d \in delivered : d.req # r

\* C4 History ordering: when chat messages M1 and then M2 were sent to a room
\* and stored, getMessagesFromDB of the room has M1 before M2.
C4_HistoryOrder ==
    \A r1, r2 \in Requests :
        ( /\ r1 < r2
          /\ reqs[r1].op = "message" /\ reqs[r2].op = "message"
          /\ reqs[r1].room = reqs[r2].room
          /\ Stored(r1) /\ Stored(r2) )
        => LET history == getMessagesFromDB(messages, reqs[r1].room, FALSE)
           IN  \E i, j \in 1..Len(history) :
                  i < j /\ history[i].message = r1 /\ history[j].message = r2

\* the rows of the table are in the order their events arrived in (the order
\* ORDER BY created_at ASC gives when the query is accepted)
StoredInArrivalOrder ==
    \A room \in RoomNames :
        LET rows == SelectMessages(messages, room)
        IN  \A i, j \in 1..Len(rows) : i < j => rows[i].message < rows[j].message

\* C9 Chat delivery: when the INSERT of a chat message is answered, newMessage
\* goes to exactly the connected sockets that have joined the room at that
\* moment (the sender among them if it has joined) and to nobody else; the
\* message is added to the messages table when the store did not fail and the
\* room is still there; and a message event whose lookup found type chat does
\* not finish otherwise.
C9_ChatDelivery ==
    [][\A r \in Requests :
          (reqs[r].op = "message" /\ Finishes(r)) =>
            LET f == reqs[r]
                got == {d.to : d \in {e \in delivered' \ delivered :
                                        e.ev = "newMessage" /\ e.req = r}}
            IN  /\ reqs'[r].roomType = "chat" =>
                     /\ reqs'[r].result = "sent"
                     /\ got = MembersOf(f.room)
                     /\ (nFail' = nFail /\ Len(SelectRoom(rooms, f.room)) = 1) =>
                          /\ Len(messages') = Len(messages) + 1
                          /\ LET row == messages'[Len(messages')]
                             IN  /\ row.room_name = f.room /\ row.message = r
                                 /\ row.sender = f.conn /\ row.type = "chat"
                /\ \A d \in delivered' \ delivered :
                     d.req = r /\ d.ev = "newMessage"]_vars

\* a chat message was stored and its newMessage reached its sender and another
\* member of the room
C9_Witness ==
    \E r \in Requests :
        /\ reqs[r].op = "message" /\ reqs[r].done /\ Stored(r)
        /\ \E d \in delivered : d.req = r /\ d.ev = "newMessage" /\ d.to = reqs[r].conn
        /\ \E d \in delivered : d.req = r /\ d.ev = "newMessage" /\ d.to # reqs[r].conn

\* C10 Game delivery: when a gameMessage event's lookup finds type game,
\* gameMessage goes to exactly the connected sockets that have joined the room,
\* the sender excepted; no sender ever receives its own gameMessage; and no
\* gameMessage event adds a row to the messages table.
C10_GameDelivery ==
    [][ /\ \A r \in Requests :
              (reqs[r].op = "gameMessage" /\ Finishes(r)) =>
                LET f == reqs[r]
                    got == {d.to : d \in {e \in delivered' \ delivered :
                                            e.ev = "gameMessage" /\ e.req = r}}
                IN  /\ messages' = messages
                    /\ reqs'[r].roomType = "game" => got = MembersOf(f.room) \ {f.conn}
        /\ \A d \in delivered' : d.ev = "gameMessage" => d.to # reqs[d.req].conn
        /\ \A i \in 1..Len(messages') : reqs'[messages'[i].message].op # "gameMessage"
      ]_vars

\* a gameMessage reached another member of the game room while its sender, a
\* member too, received nothing
C10_Witness ==
    \E r \in Requests :
        /\ reqs[r].op = "gameMessage" /\ reqs[r].done
        /\ reqs[r].room \in members[reqs[r].conn]
        /\ \E d \in delivered : d.req = r /\ d.ev = "gameMessage" /\ d.to # reqs[r].conn
        /\ \A d \in delivered : d.req = r => d.to # reqs[r].conn


\* the events that are sent to a room
RoomEvents == {"user_joined", "user_left", "newMessage", "gameMessage",
               "room_removed", "room_removed_error"}

\* C5 Membership idempotence: a leave-room by socket c for room r leaves c out
\* of r, however many join-room requests of c for r have completed before, and
\* changes no other membership; a leave-room for a room c has not joined
\* changes no membership at all; and an event sent to a room reaches only
\* sockets that are members of it at that moment, so c gets none after leaving.
C5_MembershipIdempotence ==
    [][ /\ (Len(reqs') = Len(reqs) + 1 /\ reqs'[Len(reqs')].op = "leave-room") =>
              LET c == reqs'[Len(reqs')].conn
                  r == reqs'[Len(reqs')].room
              IN  /\ r \notin members'[c]
                  /\ \A d \in Conns, n \in RoomNames :
                        (d # c \/ n # r) => (n \in members'[d] <=> n \in members[d])
                  /\ r \notin members[c] => members' = members
        /\ \A d \in delivered' \ delivered :
              d.ev \in RoomEvents => d.room \in members'[d.to]
      ]_vars

\* socket c completed two join-room requests for a chat room and then left it
\* with one leave-room: it is not a member
C5_Witness ==
    \E i, j, k \in Requests :
        /\ i < j /\ j < k
        /\ reqs[i].op = "join-room" /\ reqs[j].op = "join-room"
        /\ reqs[k].op = "leave-room"
        /\ reqs[i].conn = reqs[k].conn /\ reqs[j].conn = reqs[k].conn
        /\ reqs[i].room = reqs[k].room /\ reqs[j].room = reqs[k].room
        /\ reqs[i].done /\ reqs[j].done
        /\ reqs[i].result = "joined" /\ reqs[j].result = "joined"
        /\ sockets[reqs[k].conn] = "connected"
        /\ reqs[k].room \notin members[reqs[k].conn]

\* C6 Disconnect cleanup: once a socket is closed it is a member of no room and
\* receives no further event, whatever its suspended handlers do when they resume.
C6_DisconnectCleanup ==
    [][\A c \in Conns :
          /\ sockets'[c] = "closed" => members'[c] = {}
          /\ sockets[c] = "closed" =>
                {d \in delivered' : d.to = c} = {d \in delivered : d.to = c}]_vars

\* the part of C6 the code keeps: a closed socket receives nothing more
ClosedSocketReceivesNothing ==
    [][\A c \in Conns :
          sockets[c] = "closed" =>
             {d \in delivered' : d.to = c} = {d \in delivered : d.to = c}]_vars

\* C11 Join of a nonexistent room: when the lookup of a joinGameRoom finds no
\* game room of the name, or the lookup of a join-room finds no chat room of the
\* name, the handler changes no membership, sends joinRoomError to the requesting
\* socket (when it is still connected) and sends nothing else, so no user_joined.
C11_JoinOfNonexistentRoom ==
    [][\A r \in Requests :
          ( /\ reqs[r].op \in {"joinGameRoom", "join-room"}
            /\ Finishes(r) /\ reqs'[r].roomType = "none" )
          => LET c == reqs[r].conn
                 sent == {d \in delivered' \ delivered : d.req = r}
             IN  /\ members' = members
                 /\ \A d \in sent : d.ev = "joinRoomError" /\ d.to = c
                 /\ sockets[c] = "connected" => sent # {}]_vars

\* the join-room half of C11, which the code keeps
JoinRoomOfNonexistentRoom ==
    [][\A r \in Requests :
          ( /\ reqs[r].op = "join-room"
            /\ Finishes(r) /\ reqs'[r].roomType = "none" )
          => LET c == reqs[r].conn
                 sent == {d \in delivered' \ delivered : d.req = r}
             IN  /\ members' = members
                 /\ \A d \in sent : d.ev = "joinRoomError" /\ d.to = c
                 /\ sockets[c] = "connected" => sent # {}]_vars

\* the events that report a failure
IsError(d) ==
    \/ d.ev = "createRoomResponse" /\ d.info # "success"
    \/ d.ev = "joinRoomError"
    \/ d.ev = "room_removed_error"

\* C12 Errors are connection-scoped: every error event (createRoomResponse with
\* success false, joinRoomError, room_removed_error) a socket has received was
\* caused by an inbound event of that same socket.
C12_ErrorsConnectionScoped ==
    \A d \in delivered : IsError(d) => d.to = reqs[d.req].conn

\* the part of C12 the code keeps: createRoomResponse failures and joinRoomError
\* reach the requesting socket only
AnswersConnectionScoped ==
    \A d \in delivered :
        (IsError(d) /\ d.ev # "room_removed_error") => d.to = reqs[d.req].conn

\* the availableRooms events request r causes in this step
ListsSent(r) == {d \in delivered' \ delivered : d.req = r /\ d.ev = "availableRooms"}

\* C13 Room list propagation on creation: when a createRoom of a chat room, or a
\* createGameRoom, that answered success finishes with no store failure, every
\* connected socket receives an availableRooms event, and its payload contains
\* the new room and only names of rooms of the new room's type (the chat rooms
\* after createRoom, the game rooms after createGameRoom).
C13_RoomListPropagation ==
    [][\A r \in Requests :
          ( /\ \/ reqs[r].op = "createRoom" /\ reqs[r].type = "chat"
               \/ reqs[r].op = "createGameRoom"
            /\ Finishes(r) /\ reqs'[r].result = "success" /\ nFail' = nFail )
          => /\ {d.to : d \in ListsSent(r)} = {c \in Conns : sockets[c] = "connected"}
             /\ \A d \in ListsSent(r) :
                   /\ reqs[r].room \in d.names
                   /\ \A x \in d.names : HasRoom(rooms', x, reqs[r].type)]_vars

\* the part of C13 the code keeps: every connected socket receives the list,
\* and the list is the names of all the rooms in the store, of whatever type
RoomListHoldsEveryRoom ==
    [][\A r \in Requests :
          ( /\ reqs[r].op \in {"createRoom", "createGameRoom"}
            /\ Finishes(r) /\ reqs'[r].result = "success" /\ nFail' = nFail )
          => /\ {d.to : d \in ListsSent(r)} = {c \in Conns : sockets[c] = "connected"}
             /\ \A d \in ListsSent(r) :
                   d.names = {rooms'[i].name : i \in 1..Len(rooms')}]_vars

\* no removeRoom handler is suspended
NoRemoveInProgress == \A r \in Requests : reqs[r].op = "removeRoom" => reqs[r].done

C15_MessageTypeMatchesRoomType ==
    [][ /\ \A i \in 1..Len(messages') :
              LET rows == SelectRoom(rooms', messages'[i].room_name)
              IN  Len(rows) > 0 => messages'[i].type = rows[1].type
        /\ \A d \in delivered' \ delivered :
              d.ev = "newMessage" => ~HasRoom(rooms', d.room, "game")
      ]_vars

\* C16 Membership is dropped on room removal: once a removeRoom(name) has
\* finished without an error and no handler is suspended, no socket is a member
\* of name (no socket asked to join it in the meantime).
C16_MembershipDroppedOnRemoval ==
    \A r \in Requests :
        ( /\ reqs[r].op = "removeRoom" /\ reqs[r].done /\ reqs[r].result = "removed"
          /\ queue = <<>>
          /\ \A k \in Requests :
                reqs[k].op \notin {"join-room", "joinGameRoom", "createGameRoom"} )
        => \A c \in Conns : reqs[r].room \notin members[c]

\* C17 Persist before broadcast: a newMessage is sent only in the step in which
\* the store answers the INSERT of that message, after the answer: the row is
\* in the messages table or the failure of the INSERT is known; and every
\* message a socket has received as newMessage has no store call pending.
C17_PersistBeforeBroadcast ==
    [][ /\ \A d \in delivered' \ delivered :
              d.ev = "newMessage" =>
                 /\ At("ms_insert") /\ Head(queue).id = d.req
                 /\ \/ \E i \in 1..Len(messages') : messages'[i].message = d.req
                    \/ reqs'[d.req].failed
        /\ \A d \in delivered' :
              d.ev = "newMessage" =>
                 /\ reqs'[d.req].done
                 /\ \A i \in 1..Len(queue') : queue'[i].id # d.req
      ]_vars

\* a chat message whose INSERT succeeded reached a member of the room that is
\* not its sender
C17_Witness ==
    \E r \in Requests :
        /\ reqs[r].op = "message" /\ reqs[r].roomType = "chat" /\ ~reqs[r].failed
        /\ Stored(r)
        /\ \E d \in delivered : d.ev = "newMessage" /\ d.req = r /\ d.to # reqs[r].conn

\* C18 Fail-open chat send: when the type lookup of a message found type chat
\* and its INSERT fails, newMessage still goes to exactly the connected sockets
\* that have joined the room, no error event is sent to any socket, and the
\* messages table is unchanged.
C18_FailOpenChatSend ==
    [][\A r \in Requests :
          ( /\ reqs[r].op = "message" /\ Finishes(r)
            /\ reqs'[r].roomType = "chat" /\ reqs'[r].failed )
          => /\ {d.to : d \in {e \in delivered' \ delivered :
                                  e.ev = "newMessage" /\ e.req = r}}
                = MembersOf(reqs[r].room)
             /\ \A d \in delivered' \ delivered : ~IsError(d)
             /\ messages' = messages]_vars

\* the store failed the INSERT of a chat message for an outside reason: the
\* message is not in the table, another member of the room received newMessage
\* and the request caused no other event
C18_Witness ==
    \E r \in Requests :
        /\ reqs[r].op = "message" /\ reqs[r].done
        /\ reqs[r].roomType = "chat" /\ reqs[r].failed /\ nFail = 1
        /\ Len(SelectRoom(rooms, reqs[r].room)) = 1
        /\ ~Stored(r)
        /\ \E d \in delivered : d.ev = "newMessage" /\ d.req = r /\ d.to # reqs[r].conn
        /\ \A d \in delivered : d.req = r => d.ev = "newMessage"

\* the store answers the type lookup of request r in this step
LookupAnswered(r) ==
    /\ queue # <<>> /\ Head(queue).id = r /\ Head(queue).pc \in {"ms_type", "gm_type"}
    /\ Len(reqs') = Len(reqs) /\ sockets' = sockets

\* C19 Message to an absent room: when the type lookup of a message or a
\* gameMessage is answered while the rooms table has no row of the name, the
\* handler ends there: no row is added to the messages table, no event is sent
\* to any socket (the sockets that have joined the name included), and the
\* handler leaves the query queue, so that the queries of the other handlers
\* are answered next.
C19_MessageToAbsentRoom ==
    [][\A r \in Requests :
          ( /\ reqs[r].op \in {"message", "gameMessage"}
            /\ LookupAnswered(r)
            /\ ~\E i \in 1..Len(rooms) : rooms[i].name = reqs[r].room )
          => /\ messages' = messages
             /\ delivered' = delivered
             /\ rooms' = rooms /\ members' = members
             /\ reqs'[r].done
             /\ queue' = Tail(queue)]_vars

\* a socket sent a message to a name without a row that another socket had
\* joined, and nothing came of it; then the other socket created the room, and
\* the first socket's next message was stored and delivered
C19_Witness ==
    \E r, k, j \in Requests :
        /\ r < k /\ k < j
        /\ reqs[r].op = "message" /\ reqs[r].done /\ reqs[r].roomType = "none"
        /\ \E c \in Conns \ {reqs[r].conn} : reqs[r].room \in members[c]
        /\ \A d \in delivered : d.req # r
        /\ reqs[k].op = "createRoom" /\ reqs[k].conn # reqs[r].conn /\ Succeeded(k)
        /\ reqs[j].op = "message" /\ reqs[j].conn = reqs[r].conn /\ reqs[j].done
        /\ Stored(j)
        /\ \E d \in delivered : d.req = j /\ d.ev = "newMessage"

\* the store answers a query of request r in this step and its handler runs on
Resumes(r) ==
    /\ queue # <<>> /\ Head(queue).id = r
    /\ Len(reqs') = Len(reqs) /\ sockets' = sockets

\* C20 Companion collision: no step of a createGameRoom(name) handler changes a
\* row name-chat that is already there (it stays one row of the same type); and
\* when the handler found no room name, a room name-chat that it did not create
\* exists, the store has not failed for an outside reason and no other request
\* creates name or removes a room, the handler finishes with
\* createRoomResponse success, the rooms table holds name with type game, and
\* the request caused no error event.
C20_CompanionCollision ==
    [][\A r \in Requests :
          reqs[r].op = "createGameRoom" =>
            LET n == reqs[r].room
                c == reqs[r].conn
                old == SelectRoom(rooms, chatRoomName(n))
            IN  /\ (Resumes(r) /\ Len(old) > 0)
                   => SelectRoom(rooms', chatRoomName(n)) = old /\ Len(old) = 1
                /\ ( /\ Finishes(r)
                     /\ reqs'[r].roomType = "none"
                     /\ Len(old) > 0 /\ reqs[r].companion # "created"
                     /\ nFail' = 0
                     /\ \A k \in 1..Len(reqs') :
                           /\ reqs'[k].op # "removeRoom"
                           /\ (k # r /\ reqs'[k].room = n)
                                 => reqs'[k].op \notin {"createRoom", "createGameRoom"} )
                   => /\ reqs'[r].result = "success"
                      /\ sockets[c] = "connected" =>
                            \E d \in delivered' :
                               d.req = r /\ d.ev = "createRoomResponse"
                               /\ d.info = "success" /\ d.to = c
                      /\ HasRoom(rooms', n, "game")
                      /\ \A d \in delivered' : d.req = r => ~IsError(d)]_vars

\* another socket had created the chat room name-chat; createGameRoom(name)
\* then answered success, the game room exists, and name-chat is that one chat
\* room still
C20_Witness ==
    \E k, r \in Requests :
        /\ k < r
        /\ reqs[k].op = "createRoom" /\ reqs[k].type = "chat" /\ Succeeded(k)
        /\ reqs[k].room = chatRoomName(reqs[r].room)
        /\ reqs[k].conn # reqs[r].conn
        /\ reqs[r].op = "createGameRoom" /\ reqs[r].done
        /\ reqs[r].roomType = "none" /\ reqs[r].companion = "exists"
        /\ Succeeded(r)
        /\ HasRoom(rooms, reqs[r].room, "game")
        /\ Len(SelectRoom(rooms, reqs[k].room)) = 1
        /\ HasRoom(rooms, reqs[k].room, "chat")

\* a store call of request r fails for an outside reason in this step
StoreCallFails(r) == Resumes(r) /\ nFail' = nFail + 1

\* the answers that say the room exists already
AlreadyExists == {"Room already exists", "Room already exists!"}

\* C21 Store failure is reported to the initiator: when a store call fails while
\* a createRoom, createGameRoom, joinGameRoom, join-room, message or removeRoom
\* is processed, the handler ends, the requesting socket (when still connected)
\* receives an error event for the request that is not a "Room already exists"
\* answer, and the request leaves no room row and no membership behind.
C21_StoreFailureReported ==
    [][\A r \in Requests :
          ( /\ reqs[r].op \in {"createRoom", "createGameRoom", "joinGameRoom",
                               "join-room", "message", "removeRoom"}
            /\ StoreCallFails(r) )
          => /\ reqs'[r].done
             /\ sockets[reqs[r].conn] = "connected" =>
                   \E d \in delivered' \ delivered :
                      /\ d.req = r /\ d.to = reqs[r].conn
                      /\ IsError(d) /\ d.info \notin AlreadyExists
             /\ rooms' = rooms /\ members' = members]_vars

\* the part of C21 the code keeps: a failed lookup of joinGameRoom ends the
\* handler with a joinRoomError to the requesting socket and no membership
JoinGameRoomFailureReported ==
    [][\A r \in Requests :
          (reqs[r].op = "joinGameRoom" /\ StoreCallFails(r))
          => /\ reqs'[r].done
             /\ sockets[reqs[r].conn] = "connected" =>
                   \E d \in delivered' \ delivered :
                      d.req = r /\ d.to = reqs[r].conn /\ d.ev = "joinRoomError"
             /\ rooms' = rooms /\ members' = members]_vars

\* the availableRooms events socket c has received, and the last of them
ListsOf(c) == {d \in delivered : d.to = c /\ d.ev = "availableRooms"}
LastList(c) == CHOOSE d \in ListsOf(c) : \A e \in ListsOf(c) : e.nth <= d.nth

====
